---------------------------- MODULE Spec2Model ----------------------------
(***************************************************************************)
(* A state-machine model of src/src/suunto_common2.c: the packet transfer  *)
(* with bounded retry, the chunked memory read and write, the version,     *)
(* reset and dump operations, the fingerprint of the handle, and the       *)
(* backward traversal of the profile ring buffer (foreach).                *)
(*                                                                         *)
(* One step of the model is the code that runs between two calls to an     *)
(* external collaborator: the backend's packet function (the Transport)    *)
(* and the dive callback.  Events go to a log.  The device is a memory     *)
(* image that answers a read command with the bytes at the address the     *)
(* command frame carries.                                                  *)
(***************************************************************************)
EXTENDS Integers, Sequences, FiniteSets, TLC

VARIABLES
    env,          \* what is fixed for a run: the build, the backend, the memory image
    written,      \* device memory bytes changed by write commands (address -> byte)
    fingerprint,  \* device->fingerprint
    pc,           \* where the program is
    stack,        \* the labels to return to, innermost first
    op,           \* the interface operation in progress, its arguments, and the
                  \* device memory (mem) when it was called
    rc,           \* the status the last function returned
    xf,           \* suunto_common2_transfer: command, nretries, answer
    trail,        \* the status of every Transport attempt of the last transfer
    rw,           \* suunto_common2_read / _write: address, size, nbytes, len, destination
    bufs,         \* the byte arrays: version, serial, header, data, user
    progress,     \* device_progress_t of the call
    events,       \* the events emitted by the call, in order
    fe,           \* the locals of suunto_common2_device_foreach
    cbs,          \* the invocations of the dive callback by the call, in order
    xfers,        \* the transfers started by the call, in order
    fp0,          \* the fingerprint when the call started
    result        \* *result of dump

vars == <<env, written, fingerprint, pc, stack, op, rc, xf, trail, rw, bufs,
          progress, events, fe, cbs, xfers, fp0, result>>

---------------------------------------------------------------------------
(* Constants of the source.                                                *)

MAXRETRIES == 2
SZ_VERSION == 4
\* 0x8000 in the source.  The model keeps every other constant and scales the
\* memory, so that the profile ring is small enough to be walked around.
SZ_MEMORY == 1024
SZ_PACKET == 120
SZ_MINIMUM == 8
FP_OFFSET == 21
RB_PROFILE_BEGIN == 410
RB_PROFILE_END == SZ_MEMORY - 2
\* sizeof (device->fingerprint): the array is declared in suunto_common2.h.
FP_SIZE == 7
\* The addresses foreach reads the serial number and the header from.
SERIAL_ADDRESS == 35
HEADER_ADDRESS == 400

RingSize == RB_PROFILE_END - RB_PROFILE_BEGIN

Statuses == {"SUCCESS", "UNSUPPORTED", "TYPE_MISMATCH", "ERROR", "IO",
             "MEMORY", "PROTOCOL", "TIMEOUT"}
Transient == {"TIMEOUT", "PROTOCOL"}
\* What the Transport can answer (spec.md section 6).
Outcomes == {"SUCCESS", "TIMEOUT", "PROTOCOL", "UNSUPPORTED", "IO", "MEMORY", "ERROR"}

---------------------------------------------------------------------------
(* Bytes and arrays.                                                       *)

Min(a, b) == IF a < b THEN a ELSE b
Max(a, b) == IF a > b THEN a ELSE b

\* An array is a function on the indices that were written; the arrays of the
\* source are zero-initialised.
BufGet(b, i) == IF i \in DOMAIN b THEN b[i] ELSE 0

\* memcpy (b + off, bytes, Len(bytes))
BufPut(b, off, bytes) ==
    [i \in (DOMAIN b) \cup (off .. (off + Len(bytes) - 1)) |->
        IF i >= off /\ i < off + Len(bytes) THEN bytes[i - off + 1] ELSE b[i]]

BufSlice(b, off, n) == [i \in 1..n |-> BufGet(b, off + i - 1)]

Zeros(n) == [i \in 1..n |-> 0]

array_uint16_le(b, off) == BufGet(b, off) + 256 * BufGet(b, off + 1)

\* ringbuffer_distance (a, b, begin, end)
\* A distance that does not go around the end of the ring.
ringbuffer_distance_NoWrap(a, b, begin, end) ==
    IF b >= a THEN b - a ELSE a - b

ringbuffer_distance(a, b, begin, end) ==
    IF b >= a THEN b - a ELSE (end - a) + (b - begin)

RB_PROFILE_DISTANCE(a, b) ==
    ringbuffer_distance(a, b, RB_PROFILE_BEGIN, RB_PROFILE_END)

---------------------------------------------------------------------------
(* The device: a memory image holding the header and a ring of dive        *)
(* records.  A record starts with its two pointers (previous, next), each  *)
(* 16 bits little-endian, and holds its fingerprint at FP_OFFSET.          *)
(*                                                                         *)
(* An image is described by the header's begin pointer and the sizes of    *)
(* its records, oldest first (starts holds where each record starts);      *)
(* four fields corrupt it: countDelta is added to the header's count,      *)
(* badNext names a record whose next pointer is wrong, badPrev one whose   *)
(* previous pointer is prevPtr, zeroWin names a record whose fingerprint   *)
(* bytes are all zero.                                                     *)

RECURSIVE SumTo(_, _)
SumTo(sizes, n) == IF n = 0 THEN 0 ELSE sizes[n] + SumTo(sizes, n - 1)

\* The address x >= RB_PROFILE_BEGIN folded into the ring.
RingAt(x) == RB_PROFILE_BEGIN + ((x - RB_PROFILE_BEGIN) % RingSize)

NDives(img) == Len(img.sizes)

\* Where record i starts (1 is the oldest); record NDives + 1 is the end of the data.
DiveStart(img, i) == img.starts[i]

ImageEnd(img) == DiveStart(img, NDives(img) + 1)
ImageLast(img) == IF NDives(img) = 0 THEN img.begin ELSE DiveStart(img, NDives(img))
ImageCount(img) == NDives(img) + img.countDelta

DivePrevPtr(img, i) ==
    IF img.badPrev = i THEN img.prevPtr
    ELSE IF i = 1 THEN img.begin ELSE DiveStart(img, i - 1)
DiveNextPtr(img, i) ==
    IF img.badNext = i THEN RingAt(DiveStart(img, i + 1) + 2)
    ELSE DiveStart(img, i + 1)

\* The bytes of the memory that are neither header nor pointers.
Pattern(a) == (a * 7 + 3) % 256

Lo(x) == x % 256
Hi(x) == (x \div 256) % 256

HeaderBytes(img) ==
    << Lo(ImageLast(img)), Hi(ImageLast(img)),
       Lo(ImageCount(img)), Hi(ImageCount(img)),
       Lo(ImageEnd(img)), Hi(ImageEnd(img)),
       Lo(img.begin), Hi(img.begin) >>

DivePtrBytes(img, i) ==
    << Lo(DivePrevPtr(img, i)), Hi(DivePrevPtr(img, i)),
       Lo(DiveNextPtr(img, i)), Hi(DiveNextPtr(img, i)) >>

ImageByte(img, a) ==
    IF a >= HEADER_ADDRESS /\ a < HEADER_ADDRESS + 8
    THEN HeaderBytes(img)[a - HEADER_ADDRESS + 1]
    ELSE IF \E i \in 1..NDives(img), k \in 0..3 : a = RingAt(DiveStart(img, i) + k)
    THEN LET d == CHOOSE i \in 1..NDives(img) :
                    \E k \in 0..3 : a = RingAt(DiveStart(img, i) + k)
             n == CHOOSE k \in 0..3 : a = RingAt(DiveStart(img, d) + k)
         IN  DivePtrBytes(img, d)[n + 1]
    ELSE IF \E j \in 0..(FP_SIZE - 1) :
              /\ img.zeroWin \in 1..NDives(img)
              /\ a = RingAt(DiveStart(img, img.zeroWin) + FP_OFFSET + j)
    THEN 0
    ELSE Pattern(a)

\* The byte the device holds at address a.
DevByte(a) == IF a \in DOMAIN written THEN written[a] ELSE ImageByte(env.image, a)

DevBytes(a, n) == [i \in 1..n |-> DevByte(a + i - 1)]

\* The version the device reports.
VersionBytes == << 14, 1, 2, 3 >>

MkImage(b, s, c, n, z) ==
    [begin |-> b, sizes |-> s, countDelta |-> c, badNext |-> n, zeroWin |-> z,
     badPrev |-> 0, prevPtr |-> 0,
     starts |-> [i \in 1..(Len(s) + 1) |-> RingAt(b + SumTo(s, i - 1))]]

\* The image img with p as the previous pointer of record i.
BadPrev(img, i, p) == [img EXCEPT !.badPrev = i, !.prevPtr = p]

\* The images of the model.  The ring is [RB_PROFILE_BEGIN, RB_PROFILE_END).
Images ==
    { MkImage(500, << >>, 0, 0, 0),                              \* no dive
      MkImage(RB_PROFILE_BEGIN, << 36, 130, 50 >>, 0, 0, 0),     \* starts at BEGIN
      MkImage(RB_PROFILE_BEGIN, << 84, 40 >>, 0, 0, 0),          \* a last chunk of 4 bytes at BEGIN
      MkImage(500, << 84, 40 >>, 0, 0, 0),                       \* a last chunk of 4 bytes
      MkImage(RB_PROFILE_END - 100, << 60, 150, 45 >>, 0, 0, 0), \* a record across the wrap
      MkImage(RB_PROFILE_END - 100, << 100, 50 >>, 0, 0, 0),     \* a record starting at BEGIN
      MkImage(RB_PROFILE_END - 72, << 70, 33, 140 >>, 0, 0, 0),  \* pointers across the wrap
      MkImage(500, << 50, 40, 10 >>, 0, 0, 0),                   \* a newest record of 10 bytes
      MkImage(RB_PROFILE_END - 100, << 60, 150, 45 >>, 0, 0, 3), \* newest fingerprint all zero
      MkImage(RB_PROFILE_END - 100, << 60, 150, 45 >>, 0, 2, 0), \* a wrong next pointer
      MkImage(RB_PROFILE_END - 100, << 60, 150, 45 >>, 1, 0, 0)  \* a wrong count
    }

---------------------------------------------------------------------------
(* Command and answer frames.                                              *)

\* Bit k of the exclusive or of init and the first size bytes of data.
XorBit(data, size, init, k) ==
    (Cardinality({i \in 1..size : (data[i] \div (2 ^ k)) % 2 = 1})
        + (init \div (2 ^ k))) % 2

\* checksum_xor_uint8 (data, size, init): the exclusive or of the bytes, bit by bit
checksum_xor_uint8(data, size, init) ==
    XorBit(data, size, init, 0) + 2 * XorBit(data, size, init, 1)
    + 4 * XorBit(data, size, init, 2) + 8 * XorBit(data, size, init, 3)
    + 16 * XorBit(data, size, init, 4) + 32 * XorBit(data, size, init, 5)
    + 64 * XorBit(data, size, init, 6) + 128 * XorBit(data, size, init, 7)

WithChecksum(frame) == Append(frame, checksum_xor_uint8(frame, Len(frame), 0))

VersionCommand == << 15, 0, 0, 15 >>
ResetCommand == << 32, 0, 0, 32 >>

ReadCommand(address, len) ==
    WithChecksum(<< 5, 0, 3, (address \div 256) % 256, address % 256, len % 256 >>)

WriteCommand(address, len, bytes) ==
    WithChecksum(<< 6, 0, (len + 3) % 256, (address \div 256) % 256, address % 256,
                    len % 256 >> \o bytes)

\* The address and the count a read or write command frame carries.
CmdAddress(cmd) == cmd[4] * 256 + cmd[5]
CmdCount(cmd) == cmd[6]
CmdPayload(cmd) == SubSeq(cmd, 7, Len(cmd) - 1)

\* The answer frame of the device: the header, the payload, the checksum.
DeviceAnswer(cmd) ==
    CASE cmd[1] = 15 -> WithChecksum(<< 15, 0, 4 >> \o VersionBytes)
      [] cmd[1] = 32 -> << 32, 0, 0, 32 >>
      [] cmd[1] = 5  -> WithChecksum(SubSeq(cmd, 1, 6)
                                     \o DevBytes(CmdAddress(cmd), CmdCount(cmd)))
      [] cmd[1] = 6  -> WithChecksum(<< 6, 0, 3, cmd[4], cmd[5], cmd[6] >>)

\* The device memory after a command the device has answered.
DeviceApply(cmd) ==
    IF cmd[1] = 6 THEN BufPut(written, CmdAddress(cmd), CmdPayload(cmd)) ELSE written

---------------------------------------------------------------------------
(* The state before any call.                                              *)

xf0 == [cmd |-> << >>, asize |-> 0, size |-> 0, nretries |-> 0, answer |-> << >>]
rw0 == [address |-> 0, size |-> 0, nbytes |-> 0, len |-> 0, dest |-> "user",
        off |-> 0, progress |-> FALSE, src |-> << >>]
bufs0 == [version |-> << >>, serial |-> << >>, header |-> << >>, data |-> << >>,
          user |-> << >>]
progress0 == [current |-> 0, maximum |-> 0]
fe0 == [callback |-> FALSE, last |-> 0, count |-> 0, end |-> 0, begin |-> 0,
        remaining |-> 0, available |-> 0, ndives |-> 0, current |-> 0,
        previous |-> 0, size |-> 0, nbytes |-> 0, address |-> 0, len |-> 0,
        extra |-> 0]

NoOp == [name |-> "none", args |-> << >>, mem |-> << >>]

\* suunto_common2_device_init: the fingerprint is all zero.
InitOn(images, builds) ==
    /\ env \in [ndebug : builds, packet : BOOLEAN, image : images]
    /\ written = << >>
    /\ fingerprint = Zeros(FP_SIZE)
    /\ pc = "idle"
    /\ stack = << >>
    /\ op = NoOp
    /\ rc = "SUCCESS"
    /\ xf = xf0
    /\ trail = << >>
    /\ rw = rw0
    /\ bufs = bufs0
    /\ progress = progress0
    /\ events = << >>
    /\ fe = fe0
    /\ cbs = << >>
    /\ xfers = << >>
    /\ fp0 = Zeros(FP_SIZE)
    /\ result = 0

\* The image the operations other than foreach run on.
PlainImage == MkImage(RB_PROFILE_END - 100, << 60, 150, 45 >>, 0, 0, 0)

Init == InitOn({PlainImage}, BOOLEAN)
InitIO == InitOn({PlainImage}, {FALSE})
InitForeach == InitOn(Images, BOOLEAN)

\* No call is in progress.
Callable == pc = "idle"

\* What every call starts from: the logs of the previous call are dropped.
Fresh(name, args) ==
    /\ op' = [name |-> name, args |-> args, mem |-> written]
    /\ fp0' = fingerprint
    /\ events' = << >>
    /\ cbs' = << >>
    /\ bufs' = bufs0
    /\ result' = 0
    /\ rw' = rw0
    /\ progress' = progress0
    /\ fe' = fe0

\* return v
Ret(v) ==
    /\ pc' = Head(stack)
    /\ stack' = Tail(stack)
    /\ rc' = v

---------------------------------------------------------------------------
(* suunto_common2_transfer                                                 *)

\* rc != DEVICE_STATUS_TIMEOUT && rc != DEVICE_STATUS_PROTOCOL is false
\* A loop that also retries an input/output error.
IsTransient_WithIO(r) == r = "TIMEOUT" \/ r = "PROTOCOL" \/ r = "IO"

IsTransient(r) == r = "TIMEOUT" \/ r = "PROTOCOL"

\* A loop that increments before it compares: ++nretries > MAXRETRIES + 1
RetriesExhausted_Late(nretries) == nretries > MAXRETRIES

\* nretries++ >= MAXRETRIES
RetriesExhausted(nretries) == nretries >= MAXRETRIES

\* assert (expr): the process aborts, unless the build defines NDEBUG
AssertHolds(expr) == env.ndebug \/ expr

\* The call: the frame of the transfer, the labels st to return to, and the
\* transfers of the call so far.
StartTransfer(c, asize, size, st, log) ==
    /\ xf' = [cmd |-> c, asize |-> asize, size |-> size, nretries |-> 0,
              answer |-> Zeros(asize)]
    /\ trail' = << >>
    /\ xfers' = Append(log, [cmd |-> c, answer |-> << >>])
    /\ rc' = rc
    /\ IF AssertHolds(asize >= size + 4)
       THEN pc' = "transfer" /\ stack' = st
       ELSE pc' = "aborted" /\ stack' = << >>

\* BACKEND (abstract)->packet == NULL
TransferNoPacket ==
    /\ pc = "transfer"
    /\ ~env.packet
    /\ Ret("UNSUPPORTED")
    /\ UNCHANGED <<env, written, fingerprint, op, xf, trail, rw, bufs, progress,
                   events, fe, cbs, xfers, fp0, result>>

\* The statuses a backend reports once the command is sent: no answer in time,
\* a damaged answer, an error of the line.
AfterSending(out) == out \in {"TIMEOUT", "PROTOCOL", "IO"}

\* One call of the backend's packet function, and what the loop does with its
\* status.  A call that fails after the command is sent may have reached the
\* device all the same: the command of a write is then applied or not.
TransferPacket ==
    /\ pc = "transfer"
    /\ env.packet
    /\ \E out \in Outcomes :
          /\ trail' = Append(trail, out)
          /\ IF out = "SUCCESS"
             THEN /\ LET answer == DeviceAnswer(xf.cmd)
                     IN  /\ xf' = [xf EXCEPT !.answer = answer]
                         /\ xfers' = [xfers EXCEPT ![Len(xfers)].answer = answer]
                  /\ written' = DeviceApply(xf.cmd)
                  /\ Ret("SUCCESS")
             ELSE /\ UNCHANGED xfers
                  /\ written' \in IF AfterSending(out)
                                   THEN {written, DeviceApply(xf.cmd)}
                                   ELSE {written}
                  /\ IF ~IsTransient(out)
                     THEN xf' = xf /\ Ret(out)
                     ELSE /\ xf' = [xf EXCEPT !.nretries = xf.nretries + 1]
                          /\ IF RetriesExhausted(xf.nretries)
                             THEN Ret(out)
                             ELSE rc' = out /\ UNCHANGED <<pc, stack>>
    /\ UNCHANGED <<env, fingerprint, op, rw, bufs, progress, events, fe, cbs,
                   fp0, result>>

---------------------------------------------------------------------------
(* suunto_common2_device_set_fingerprint                                   *)

\* The fingerprint bytes the device holds for record i.
DevWindow(i) ==
    [j \in 1..FP_SIZE |->
        DevByte(RingAt(DiveStart(env.image, i) + FP_OFFSET + j - 1))]

OtherFingerprint == [j \in 1..FP_SIZE |-> 200 + j]

\* The inputs of set_fingerprint: empty, of the right size, too short, too long.
SetFingerprintArgs ==
    {<< >>, OtherFingerprint, SubSeq(OtherFingerprint, 1, FP_SIZE - 1),
     Append(OtherFingerprint, 9)}
    \cup {DevWindow(i) : i \in 1..NDives(env.image)}

\* An empty input that leaves the fingerprint as it is.
SetFingerprintValue_KeepsOnEmpty(data, size) ==
    IF size = FP_SIZE THEN SubSeq(data, 1, FP_SIZE) ELSE fingerprint

\* The fingerprint after set_fingerprint (data, size).
SetFingerprintValue(data, size) ==
    IF size # 0 /\ size # FP_SIZE THEN fingerprint
    ELSE IF size # 0 THEN SubSeq(data, 1, FP_SIZE)
    ELSE Zeros(FP_SIZE)

SetFingerprintStatus(size) ==
    IF size # 0 /\ size # FP_SIZE THEN "ERROR" ELSE "SUCCESS"

SetFingerprint ==
    /\ Callable
    /\ \E data \in SetFingerprintArgs :
          /\ fingerprint' = SetFingerprintValue(data, Len(data))
          /\ rc' = SetFingerprintStatus(Len(data))
          /\ Fresh("set_fingerprint", << data, Len(data) >>)
    /\ pc' = "done"
    /\ stack' = << >>
    /\ xfers' = << >>
    /\ xf' = xf0
    /\ trail' = << >>
    /\ UNCHANGED <<env, written>>

---------------------------------------------------------------------------
(* suunto_common2_device_version, suunto_common2_device_reset_maxdepth     *)

\* The array version () copies into: the caller's, or foreach's own.
VersionDest == IF op.name = "foreach" THEN "version" ELSE "user"

\* The sizes of the buffer the caller of version () passes.
VersionSizes == {SZ_VERSION - 1, SZ_VERSION}

\* if (size < SZ_VERSION)
VersionTooSmall(size) == size < SZ_VERSION

CallVersion ==
    /\ Callable
    /\ \E size \in VersionSizes :
          /\ Fresh("version", << size >>)
          /\ IF VersionTooSmall(size)
             THEN /\ pc' = "done"
                  /\ stack' = << >>
                  /\ rc' = "MEMORY"
                  /\ xfers' = << >>
                  /\ xf' = xf0
                  /\ trail' = << >>
             ELSE /\ StartTransfer(VersionCommand, SZ_VERSION + 4, 4,
                                   << "version_ret", "done" >>, << >>)
    /\ UNCHANGED <<env, written, fingerprint>>

\* A copy of the version that lands in the handle's fingerprint.
VersionRet_IntoHandle ==
    /\ pc = "version_ret"
    /\ trail' = << >>
    /\ IF rc # "SUCCESS"
       THEN Ret(rc) /\ fingerprint' = fingerprint
       ELSE /\ fingerprint' = [j \in 1..FP_SIZE |->
                                 IF j <= SZ_VERSION THEN xf.answer[3 + j] ELSE fingerprint[j]]
            /\ Ret("SUCCESS")
    /\ UNCHANGED <<env, written, bufs, op, xf, rw, progress, events, fe,
                   cbs, xfers, fp0, result>>

\* After the transfer: memcpy (data, answer + 3, SZ_VERSION)
VersionRet ==
    /\ pc = "version_ret"
    /\ trail' = << >>
    /\ IF rc # "SUCCESS"
       THEN Ret(rc) /\ bufs' = bufs
       ELSE /\ bufs' = [bufs EXCEPT ![VersionDest] =
                            BufPut(@, 0, SubSeq(xf.answer, 4, 3 + SZ_VERSION))]
            /\ Ret("SUCCESS")
    /\ UNCHANGED <<env, written, fingerprint, op, xf, rw, progress, events, fe,
                   cbs, xfers, fp0, result>>

CallReset ==
    /\ Callable
    /\ Fresh("reset_maxdepth", << >>)
    /\ StartTransfer(ResetCommand, 4, 0, << "reset_ret", "done" >>, << >>)
    /\ UNCHANGED <<env, written, fingerprint>>

ResetRet ==
    /\ pc = "reset_ret"
    /\ trail' = << >>
    /\ IF rc # "SUCCESS" THEN Ret(rc) ELSE Ret("SUCCESS")
    /\ UNCHANGED <<env, written, fingerprint, op, xf, rw, bufs, progress, events,
                   fe, cbs, xfers, fp0, result>>

---------------------------------------------------------------------------
(* suunto_common2_read, suunto_common2_device_read                         *)

\* len = size - nbytes; if (len > SZ_PACKET) len = SZ_PACKET
PacketLen(size, nbytes) ==
    IF size - nbytes > SZ_PACKET THEN SZ_PACKET ELSE size - nbytes

\* A loop that advances the buffer but not the device address.
NextPacket_SameAddress(r) ==
    [r EXCEPT !.nbytes = @ + r.len,
              !.off = @ + r.len]

\* nbytes += len; address += len; data += len
NextPacket(r) ==
    [r EXCEPT !.nbytes = @ + r.len,
              !.address = @ + r.len,
              !.off = @ + r.len]

\* A copy that starts one byte early: memcpy (data, answer + 5, len)
ReadPayload_OneEarly(answer, len) == SubSeq(answer, 6, 5 + len)

\* memcpy (data, answer + 6, len)
ReadPayload(answer, len) == SubSeq(answer, 7, 6 + len)

ProgressEvent(p) == [type |-> "progress", current |-> p.current, maximum |-> p.maximum]

\* The head of the loop of read: the next package, or the return to st.
ReadLoop(r, st, log) ==
    IF r.nbytes < r.size
    THEN LET len == PacketLen(r.size, r.nbytes)
         IN  /\ rw' = [r EXCEPT !.len = len]
             /\ StartTransfer(ReadCommand(r.address, len), len + 7, len,
                              << "read_ret" >> \o st, log)
    ELSE /\ rw' = r
         /\ pc' = Head(st)
         /\ stack' = Tail(st)
         /\ rc' = "SUCCESS"
         /\ xf' = xf
         /\ trail' = << >>
         /\ xfers' = log

\* The buffers the caller of read () passes.
ReadAddresses == {0, 390}
ReadSizes == {0, 1, 119, 120, 121, 240, 241}
ReadArgs == {a \in ReadAddresses \X ReadSizes : a[1] = 0 \/ a[2] \in {1, 120, 241}}

CallRead ==
    /\ Callable
    /\ fp0' = fingerprint
    /\ events' = << >>
    /\ cbs' = << >>
    /\ bufs' = bufs0
    /\ result' = 0
    /\ progress' = progress0
    /\ fe' = fe0
    /\ \E a \in ReadArgs :
          /\ op' = [name |-> "read", args |-> a, mem |-> written]
          /\ ReadLoop([rw0 EXCEPT !.address = a[1], !.size = a[2]], << "done" >>, << >>)
    /\ UNCHANGED <<env, written, fingerprint>>

\* After the transfer of a package: the copy, the progress event, the next package.
ReadRet ==
    /\ pc = "read_ret"
    /\ IF rc # "SUCCESS"
       THEN /\ Ret(rc)
            /\ trail' = << >>
            /\ UNCHANGED <<xf, rw, bufs, progress, events, xfers>>
       ELSE /\ bufs' = [bufs EXCEPT ![rw.dest] =
                            BufPut(@, rw.off, ReadPayload(xf.answer, rw.len))]
            /\ IF rw.progress
               THEN LET p == [progress EXCEPT !.current = @ + rw.len]
                    IN  progress' = p /\ events' = Append(events, ProgressEvent(p))
               ELSE UNCHANGED <<progress, events>>
            /\ ReadLoop(NextPacket(rw), stack, xfers)
    /\ UNCHANGED <<env, written, fingerprint, op, fe, cbs, fp0, result>>

---------------------------------------------------------------------------
(* suunto_common2_device_write                                             *)

\* What the caller of write () passes: size bytes.
WriteData(size) == [i \in 1..size |-> (i * 3 + 1) % 256]
WriteAddresses == {64}
WriteSizes == {0, 120, 250}

\* memcpy (command + 6, data, len)
WritePayload(r) == SubSeq(r.src, r.off + 1, r.off + r.len)

WriteLoop(r, st, log) ==
    IF r.nbytes < r.size
    THEN LET len == PacketLen(r.size, r.nbytes)
             q == [r EXCEPT !.len = len]
         IN  /\ rw' = q
             /\ StartTransfer(WriteCommand(r.address, len, WritePayload(q)), 7, 0,
                              << "write_ret" >> \o st, log)
    ELSE /\ rw' = r
         /\ pc' = Head(st)
         /\ stack' = Tail(st)
         /\ rc' = "SUCCESS"
         /\ xf' = xf
         /\ trail' = << >>
         /\ xfers' = log

CallWrite ==
    /\ Callable
    /\ fp0' = fingerprint
    /\ events' = << >>
    /\ cbs' = << >>
    /\ bufs' = bufs0
    /\ result' = 0
    /\ progress' = progress0
    /\ fe' = fe0
    /\ \E address \in WriteAddresses, size \in WriteSizes :
          /\ op' = [name |-> "write", args |-> << address, size >>, mem |-> written]
          /\ WriteLoop([rw0 EXCEPT !.address = address, !.size = size,
                                !.src = WriteData(size)], << "done" >>, << >>)
    /\ UNCHANGED <<env, written, fingerprint>>

\* A loop that goes on to the next package whatever the transfer returned.
WriteRet_GoesOn ==
    /\ pc = "write_ret"
    /\ WriteLoop(NextPacket(rw), stack, xfers)
    /\ UNCHANGED <<env, written, fingerprint, op, bufs, progress, events, fe, cbs,
                   fp0, result>>

WriteRet ==
    /\ pc = "write_ret"
    /\ IF rc # "SUCCESS"
       THEN /\ Ret(rc)
            /\ trail' = << >>
            /\ UNCHANGED <<xf, rw, xfers>>
       ELSE WriteLoop(NextPacket(rw), stack, xfers)
    /\ UNCHANGED <<env, written, fingerprint, op, bufs, progress, events, fe, cbs,
                   fp0, result>>

---------------------------------------------------------------------------
(* suunto_common2_device_dump                                              *)

\* The sizes of the buffer the caller of dump () passes.
DumpSizes == {SZ_MEMORY - 1, SZ_MEMORY}

\* A test that lets a buffer one byte short pass.
DumpTooSmall_OffByOne(size) == size < SZ_MEMORY - 1

\* if (size < SZ_MEMORY)
DumpTooSmall(size) == size < SZ_MEMORY

CallDump ==
    /\ Callable
    /\ fp0' = fingerprint
    /\ cbs' = << >>
    /\ bufs' = bufs0
    /\ result' = 0
    /\ fe' = fe0
    /\ \E size \in DumpSizes :
          /\ op' = [name |-> "dump", args |-> << size >>, mem |-> written]
          /\ IF DumpTooSmall(size)
             THEN /\ pc' = "done"
                  /\ stack' = << >>
                  /\ rc' = "MEMORY"
                  /\ UNCHANGED <<xf, trail, rw, progress, events, xfers>>
             ELSE LET p == [current |-> 0, maximum |-> SZ_MEMORY]
                  IN  /\ progress' = p
                      /\ events' = << ProgressEvent(p) >>
                      /\ ReadLoop([rw0 EXCEPT !.address = 0, !.size = SZ_MEMORY,
                                              !.progress = TRUE],
                                  << "dump_ret", "done" >>, << >>)
    /\ UNCHANGED <<env, written, fingerprint>>

DumpRet ==
    /\ pc = "dump_ret"
    /\ IF rc # "SUCCESS"
       THEN Ret(rc) /\ result' = result
       ELSE Ret("SUCCESS") /\ result' = SZ_MEMORY
    /\ UNCHANGED <<env, written, fingerprint, op, xf, trail, rw, bufs, progress,
                   events, fe, cbs, xfers, fp0>>

---------------------------------------------------------------------------
(* The caller takes the result of a call; its logs are dropped.            *)

Return ==
    /\ pc = "done"
    /\ pc' = "idle"
    /\ op' = NoOp
    /\ rc' = "SUCCESS"
    /\ xf' = xf0
    /\ trail' = << >>
    /\ rw' = rw0
    /\ bufs' = bufs0
    /\ progress' = progress0
    /\ events' = << >>
    /\ fe' = fe0
    /\ cbs' = << >>
    /\ xfers' = << >>
    /\ fp0' = fingerprint
    /\ result' = 0
    /\ UNCHANGED <<env, written, fingerprint, stack>>

---------------------------------------------------------------------------
(* suunto_common2_device_foreach                                           *)

\* An unsigned int is held as the integer congruent to it modulo 2^32 that is
\* nearest to zero: a negative integer stands for a value above 2^31.
ULt(a, b) == IF (a >= 0) = (b >= 0) THEN a < b ELSE a >= 0
ULe(a, b) == ~ULt(b, a)

\* sizeof (serial), sizeof (header), sizeof (data)
SerialSize == IF SZ_MINIMUM > 4 THEN SZ_MINIMUM ELSE 4
HeaderSize == 8
DataSize == SZ_MINIMUM + RB_PROFILE_END - RB_PROFILE_BEGIN

\* An access to n bytes of data at offset off stays inside the array.
InData(off, n) == off >= 0 /\ n >= 0 /\ off + n <= DataSize

array_uint24_be(b, off) ==
    BufGet(b, off) * 65536 + BufGet(b, off + 1) * 256 + BufGet(b, off + 2)

array_uint32_be(b, off) ==
    (IF BufGet(b, off) >= 128 THEN BufGet(b, off) - 256 ELSE BufGet(b, off)) * 16777216
    + BufGet(b, off + 1) * 65536 + BufGet(b, off + 2) * 256 + BufGet(b, off + 3)

DevinfoEvent(version, serial) ==
    [type |-> "devinfo", model |-> BufGet(version, 0),
     firmware |-> array_uint24_be(version, 1), serial |-> array_uint32_be(serial, 0)]

\* A maximum that leaves out the bytes of the version.
ForeachMaximum_NoVersion == RB_PROFILE_END - RB_PROFILE_BEGIN + 8 + SerialSize

\* progress.maximum when foreach starts
ForeachMaximum == RB_PROFILE_END - RB_PROFILE_BEGIN + 8 + SZ_VERSION + SerialSize

\* The call: the first progress event, then the version is read.
CallForeach ==
    /\ Callable
    /\ fp0' = fingerprint
    /\ cbs' = << >>
    /\ bufs' = bufs0
    /\ result' = 0
    /\ rw' = rw0
    /\ \E callback \in BOOLEAN :
          /\ op' = [name |-> "foreach", args |-> << callback >>, mem |-> written]
          /\ fe' = [fe0 EXCEPT !.callback = callback]
    /\ LET p == [current |-> 0, maximum |-> ForeachMaximum]
       IN  progress' = p /\ events' = << ProgressEvent(p) >>
    /\ StartTransfer(VersionCommand, SZ_VERSION + 4, 4,
                     << "version_ret", "fe_version", "done" >>, << >>)
    /\ UNCHANGED <<env, written, fingerprint>>

\* After version (): the progress event, then the serial number is read.
FeVersion ==
    /\ pc = "fe_version"
    /\ IF rc # "SUCCESS"
       THEN /\ Ret(rc)
            /\ UNCHANGED <<xf, trail, rw, progress, events, xfers>>
       ELSE /\ LET p == [progress EXCEPT !.current = @ + SZ_VERSION]
               IN  progress' = p /\ events' = Append(events, ProgressEvent(p))
            /\ ReadLoop([rw0 EXCEPT !.address = SERIAL_ADDRESS, !.size = SerialSize,
                                    !.dest = "serial"],
                        << "fe_serial" >> \o stack, xfers)
    /\ UNCHANGED <<env, written, fingerprint, op, bufs, fe, cbs, fp0, result>>

\* After the serial number: the progress and devinfo events, then the header is read.
FeSerial ==
    /\ pc = "fe_serial"
    /\ IF rc # "SUCCESS"
       THEN /\ Ret(rc)
            /\ UNCHANGED <<xf, trail, rw, progress, events, xfers>>
       ELSE /\ LET p == [progress EXCEPT !.current = @ + SerialSize]
               IN  /\ progress' = p
                   /\ events' = events \o << ProgressEvent(p),
                                            DevinfoEvent(bufs.version, bufs.serial) >>
            /\ ReadLoop([rw0 EXCEPT !.address = HEADER_ADDRESS, !.size = HeaderSize,
                                    !.dest = "header"],
                        << "fe_header" >> \o stack, xfers)
    /\ UNCHANGED <<env, written, fingerprint, op, bufs, fe, cbs, fp0, result>>

\* After the header: the pointers, the amount of bytes, the progress event.
FeHeader ==
    /\ pc = "fe_header"
    /\ IF rc # "SUCCESS"
       THEN /\ Ret(rc)
            /\ UNCHANGED <<progress, events, fe>>
       ELSE LET last == array_uint16_le(bufs.header, 0)
                count == array_uint16_le(bufs.header, 2)
                end == array_uint16_le(bufs.header, 4)
                begin == array_uint16_le(bufs.header, 6)
                remaining == RB_PROFILE_DISTANCE(begin, end)
                p == [current |-> progress.current + HeaderSize,
                      maximum |-> progress.maximum
                                  - ((RB_PROFILE_END - RB_PROFILE_BEGIN) - remaining)]
            IN  /\ progress' = p
                /\ events' = Append(events, ProgressEvent(p))
                /\ fe' = [fe EXCEPT !.last = last, !.count = count, !.end = end,
                                    !.begin = begin, !.remaining = remaining,
                                    !.available = 0, !.ndives = 0,
                                    !.current = end, !.previous = last]
                /\ pc' = "fe_outer"
                /\ UNCHANGED <<stack, rc>>
    /\ UNCHANGED <<env, written, fingerprint, op, xf, trail, rw, bufs, cbs, xfers,
                   fp0, result>>


\* The package size: the largest possible, adjusted at the end of the ringbuffer
\* and at the end of the profile data.
ChunkLen(address, nbytes, remaining) ==
    LET len1 == IF ULt(address, RB_PROFILE_BEGIN + SZ_PACKET)
                THEN address - RB_PROFILE_BEGIN ELSE SZ_PACKET
    IN  IF ULt(remaining, nbytes + len1) THEN remaining - nbytes ELSE len1

\* A package that is never widened.
ChunkExtra_None(len) == 0

\* if (len < SZ_MINIMUM) extra = SZ_MINIMUM - len
ChunkExtra(len) == IF ULt(len, SZ_MINIMUM) THEN SZ_MINIMUM - len ELSE 0

\* p - (len + extra), for p = data + SZ_MINIMUM + remaining - nbytes
ChunkOffset(remaining, nbytes, len, extra) ==
    SZ_MINIMUM + remaining - nbytes - (len + extra)

\* address -= len; if (address <= RB_PROFILE_BEGIN) address = RB_PROFILE_END
NextAddress(address, len) ==
    IF ULe(address - len, RB_PROFILE_BEGIN) THEN RB_PROFILE_END ELSE address - len

\* The transfers of one call the model follows.
MaxTransfers == 16

\* The head of the inner loop: the next package is read, or the dive is complete.
FeInner(f) ==
    IF ULt(f.nbytes, f.size)
    THEN LET len == ChunkLen(f.address, f.nbytes, f.remaining)
             extra == ChunkExtra(len)
             off == ChunkOffset(f.remaining, f.nbytes, len, extra)
         IN  /\ fe' = [f EXCEPT !.len = len, !.extra = extra]
             /\ IF InData(off, len + extra)
                THEN ReadLoop([rw0 EXCEPT !.address = f.address - (len + extra),
                                          !.size = len + extra,
                                          !.dest = "data", !.off = off],
                              << "fe_chunk", "done" >>, xfers)
                ELSE /\ pc' = "undefined"
                     /\ stack' = << >>
                     /\ trail' = << >>
                     /\ UNCHANGED <<rc, rw, xf, xfers>>
    ELSE /\ fe' = f
         /\ pc' = "fe_dive"
         /\ trail' = << >>
         /\ UNCHANGED <<stack, rc, rw, xf, xfers>>

\* assert (size >= 4 && size <= remaining)
SizeAssertion(size, remaining) == ULe(4, size) /\ ULe(size, remaining)

\* The head of the outer loop: the size of the current dive, or the end of the
\* traversal with its three assertions.
FeOuter ==
    /\ pc = "fe_outer"
    /\ IF fe.current # fe.begin
       THEN LET size == RB_PROFILE_DISTANCE(fe.previous, fe.current)
            IN  IF AssertHolds(SizeAssertion(size, fe.remaining))
                THEN FeInner([fe EXCEPT !.size = size, !.nbytes = fe.available,
                                        !.address = fe.current - fe.available])
                ELSE /\ pc' = "aborted"
                     /\ stack' = << >>
                     /\ UNCHANGED <<rc, rw, xf, trail, xfers, fe>>
       ELSE /\ IF /\ AssertHolds(fe.remaining = 0)
                  /\ AssertHolds(fe.available = 0)
                  /\ AssertHolds(fe.ndives = fe.count)
               THEN Ret("SUCCESS")
               ELSE pc' = "aborted" /\ stack' = << >> /\ rc' = rc
            /\ UNCHANGED <<rw, xf, trail, xfers, fe>>
    /\ UNCHANGED <<env, written, fingerprint, op, bufs, progress, events, cbs,
                   fp0, result>>

\* After the read of a package: the progress event, the next package.
FeChunk ==
    /\ pc = "fe_chunk"
    /\ Len(xfers) <= MaxTransfers
    /\ IF rc # "SUCCESS"
       THEN /\ Ret(rc)
            /\ UNCHANGED <<xf, trail, rw, progress, events, xfers, fe>>
       ELSE /\ LET p == [progress EXCEPT !.current = @ + fe.len]
               IN  progress' = p /\ events' = Append(events, ProgressEvent(p))
            /\ FeInner([fe EXCEPT !.nbytes = @ + fe.len,
                                  !.address = NextAddress(@, fe.len)])
    /\ UNCHANGED <<env, written, fingerprint, op, bufs, cbs, fp0, result>>

\* A comparison at the start of the record instead of at FP_OFFSET.
FingerprintMatches_AtStart(data, offset) ==
    BufSlice(data, offset, FP_SIZE) = fingerprint

\* memcmp (data + offset + FP_OFFSET, device->fingerprint, sizeof (device->fingerprint)) == 0
FingerprintMatches(data, offset) ==
    BufSlice(data, offset + FP_OFFSET, FP_SIZE) = fingerprint

\* callback (data + offset + 4, size - 4, userdata): what the callback is handed
DivePayload(data, offset, size) == BufSlice(data, offset + 4, size - 4)

\* The dive is complete: its pointers, the next dive, the fingerprint, the callback.
FeDive ==
    /\ pc = "fe_dive"
    /\ LET remaining == fe.remaining - fe.size
           available == fe.nbytes - fe.size
           offset == SZ_MINIMUM + remaining
           oprevious == array_uint16_le(bufs.data, offset + 0)
           onext == array_uint16_le(bufs.data, offset + 2)
           f == [fe EXCEPT !.remaining = remaining, !.available = available,
                           !.current = fe.previous, !.previous = oprevious,
                           !.ndives = @ + 1]
       IN  IF ~InData(offset, 4)
           THEN pc' = "undefined" /\ stack' = << >> /\ UNCHANGED <<rc, fe, cbs>>
           ELSE IF ~AssertHolds(fe.current = onext)
           THEN pc' = "aborted" /\ stack' = << >> /\ UNCHANGED <<rc, fe, cbs>>
           ELSE IF ~InData(offset + FP_OFFSET, FP_SIZE)
           THEN pc' = "undefined" /\ stack' = << >> /\ fe' = f /\ UNCHANGED <<rc, cbs>>
           ELSE IF FingerprintMatches(bufs.data, offset)
           THEN Ret("SUCCESS") /\ fe' = f /\ cbs' = cbs
           ELSE IF ~fe.callback
           THEN pc' = "fe_outer" /\ fe' = f /\ UNCHANGED <<stack, rc, cbs>>
           ELSE IF ~InData(offset + 4, fe.size - 4)
           THEN pc' = "undefined" /\ stack' = << >> /\ fe' = f /\ UNCHANGED <<rc, cbs>>
           ELSE /\ pc' = "callback"
                /\ fe' = f
                /\ cbs' = Append(cbs, [data |-> DivePayload(bufs.data, offset, fe.size),
                                       size |-> fe.size - 4,
                                       begin |-> fe.previous, end |-> fe.current,
                                       ret |-> "pending"])
                /\ UNCHANGED <<stack, rc>>
    /\ UNCHANGED <<env, written, fingerprint, op, xf, trail, rw, bufs, progress,
                   events, xfers, fp0, result>>

\* A traversal that ignores what the callback returns.
FeCallback_Ignored ==
    /\ pc = "callback"
    /\ \E continue \in BOOLEAN :
          cbs' = [cbs EXCEPT ![Len(cbs)].ret = IF continue THEN "continue" ELSE "stop"]
    /\ pc' = "fe_outer"
    /\ UNCHANGED <<env, written, fingerprint, op, xf, trail, rw, bufs, progress,
                   events, fe, xfers, fp0, result, stack, rc>>

\* The callback returns: zero stops the traversal.
FeCallback ==
    /\ pc = "callback"
    /\ \E continue \in BOOLEAN :
          /\ cbs' = [cbs EXCEPT ![Len(cbs)].ret = IF continue THEN "continue" ELSE "stop"]
          /\ IF ~continue
             THEN Ret("SUCCESS")
             ELSE pc' = "fe_outer" /\ UNCHANGED <<stack, rc>>
    /\ UNCHANGED <<env, written, fingerprint, op, xf, trail, rw, bufs, progress,
                   events, fe, xfers, fp0, result>>

---------------------------------------------------------------------------
(* The specifications.                                                     *)

\* Every operation of the interface, on one image.
Next ==
    \/ TransferNoPacket
    \/ TransferPacket
    \/ SetFingerprint
    \/ CallVersion
    \/ VersionRet
    \/ CallReset
    \/ ResetRet
    \/ CallRead
    \/ ReadRet
    \/ CallWrite
    \/ WriteRet
    \/ CallDump
    \/ DumpRet
    \/ CallForeach
    \/ FeVersion
    \/ FeSerial
    \/ FeHeader
    \/ FeOuter
    \/ FeChunk
    \/ FeDive
    \/ FeCallback
    \/ Return

Spec == Init /\ [][Next]_vars

\* The transfer and the operations built on it alone: version, reset, read, write, dump.
NextIO ==
    \/ TransferNoPacket
    \/ TransferPacket
    \/ CallVersion
    \/ VersionRet
    \/ CallReset
    \/ ResetRet
    \/ CallRead
    \/ ReadRet
    \/ CallWrite
    \/ WriteRet
    \/ CallDump
    \/ DumpRet
    \/ Return

SpecIO == InitIO /\ [][NextIO]_vars

\* set_fingerprint and foreach, on every image and both builds.
NextForeach ==
    \/ TransferNoPacket
    \/ TransferPacket
    \/ SetFingerprint
    \/ VersionRet
    \/ ReadRet
    \/ CallForeach
    \/ FeVersion
    \/ FeSerial
    \/ FeHeader
    \/ FeOuter
    \/ FeChunk
    \/ FeDive
    \/ FeCallback
    \/ Return

SpecForeach == InitForeach /\ [][NextForeach]_vars

\* The offsets the distance is computed for: those near both ends of the ring
\* and every sixteenth in between.
RingSample ==
    {x \in RB_PROFILE_BEGIN..(RB_PROFILE_END - 1) :
        x - RB_PROFILE_BEGIN < 12 \/ RB_PROFILE_END - x <= 12 \/ x % 16 = 0}

\* RB_PROFILE_DISTANCE (a, b), as foreach computes it for two offsets of the ring.
CallDistance ==
    /\ Callable
    /\ \E a \in RingSample, b \in RingSample :
          /\ op' = [name |-> "distance", args |-> << a, b >>, mem |-> written]
          /\ result' = RB_PROFILE_DISTANCE(a, b)
    /\ pc' = "done"
    /\ rc' = "SUCCESS"
    /\ UNCHANGED <<env, written, fingerprint, stack, xf, trail, rw, bufs, progress,
                   events, fe, cbs, xfers, fp0>>

\* Rings whose header has begin = end: without a dive, and filled entirely.
RingImages ==
    { MkImage(500, << >>, 0, 0, 0),
      MkImage(RB_PROFILE_BEGIN, << >>, 0, 0, 0),
      MkImage(500, << 300, RingSize - 300 >>, 0, 0, 0),
      PlainImage }

InitRing == InitOn(RingImages, BOOLEAN)

\* The distance, and foreach on the rings above.
NextRing ==
    \/ CallDistance
    \/ TransferNoPacket
    \/ TransferPacket
    \/ VersionRet
    \/ ReadRet
    \/ CallForeach
    \/ FeVersion
    \/ FeSerial
    \/ FeHeader
    \/ FeOuter
    \/ FeChunk
    \/ FeDive
    \/ FeCallback
    \/ Return

SpecRing == InitRing /\ [][NextRing]_vars

\* foreach on a ring that is nearly full and whose newest record is shorter
\* than FP_OFFSET + FP_SIZE, and on a memory whose newest record holds a
\* previous pointer two bytes above its own start.
HostileImages ==
    { MkImage(RB_PROFILE_BEGIN, << 300, 290, 10 >>, 0, 0, 0),
      BadPrev(PlainImage, 3, RingAt(DiveStart(PlainImage, 3) + 2)),
      PlainImage }

InitHostile == InitOn(HostileImages, BOOLEAN)

SpecHostile == InitHostile /\ [][NextForeach]_vars

\* foreach and dump, the two operations that report their progress, on every
\* memory of the model and in both builds.
NextProgress == NextForeach \/ CallDump \/ DumpRet

SpecProgress == InitForeach /\ [][NextProgress]_vars


---------------------------------------------------------------------------
(* Properties of suunto_common2_transfer                                   *)

\* The transfer has returned and its caller has not yet looked at the status.
TransferReturned == pc \in {"version_ret", "reset_ret", "read_ret", "write_ret"}

Last(s) == s[Len(s)]

TransientOnly(s) == \A i \in 1..Len(s) : s[i] \in Transient

\* C1: the backend is called at most MAXRETRIES + 1 = 3 times per transfer;
\* transient failures (timeout, protocol) before a success stay hidden, the
\* transfer returning success after N + 1 calls when N <= 2 calls failed; a
\* transient failure is returned only from the third call, and then it is the
\* status of that last call.
C1_Retry ==
    /\ Len(trail) <= MAXRETRIES + 1
    /\ pc = "transfer" => Len(trail) <= MAXRETRIES /\ TransientOnly(trail)
    /\ (TransferReturned /\ env.packet) =>
          /\ Len(trail) >= 1
          /\ TransientOnly(SubSeq(trail, 1, Len(trail) - 1))
          /\ rc = Last(trail)
          /\ Last(trail) \in Transient => Len(trail) = MAXRETRIES + 1

\* Two transient failures, then a success: the caller sees a success.
C1_Witness ==
    /\ TransferReturned
    /\ Len(trail) = MAXRETRIES + 1
    /\ TransientOnly(SubSeq(trail, 1, MAXRETRIES))
    /\ Last(trail) = "SUCCESS"
    /\ rc = "SUCCESS"

\* C2: a failure of another kind is the last call of its transfer and is the
\* status returned, however many retries were used before it; without a packet
\* function the transfer returns UNSUPPORTED and the backend is never called.
C2_NonTransient ==
    /\ \A i \in 1..Len(trail) :
          trail[i] \notin (Transient \cup {"SUCCESS"}) =>
              /\ i = Len(trail)
              /\ TransferReturned
              /\ rc = trail[i]
    /\ ~env.packet =>
          /\ trail = << >>
          /\ TransferReturned => rc = "UNSUPPORTED"
          /\ \A i \in 1..Len(xfers) : xfers[i].answer = << >>

\* An input/output error after two retries.
C2_Witness ==
    /\ TransferReturned
    /\ Len(trail) = MAXRETRIES + 1
    /\ TransientOnly(SubSeq(trail, 1, MAXRETRIES))
    /\ Last(trail) = "IO"
    /\ rc = "IO"


---------------------------------------------------------------------------
(* Properties of suunto_common2_read and suunto_common2_device_write       *)

\* The payload of an answer frame: what follows the six bytes of the header
\* and precedes the checksum.
AnswerPayload(answer) == SubSeq(answer, 7, Len(answer) - 1)

RECURSIVE Payloads(_, _)
Payloads(log, n) ==
    IF n = 0 THEN << >> ELSE Payloads(log, n - 1) \o AnswerPayload(log[n].answer)

\* ceil (L / SZ_PACKET)
PacketCount(L) == (L + SZ_PACKET - 1) \div SZ_PACKET

\* C3: a read or a write of L bytes at address A that succeeds has issued
\* ceil (L / 120) transfers, the i-th (from 0) carrying the address A + 120 * i
\* and the count min (120, L - 120 * i); the buffer a read fills is the
\* concatenation of the payloads of the answers, in order.
C3_Packets ==
    op.name \in {"read", "write"} =>
        LET A == op.args[1]
            L == op.args[2]
        IN  /\ Len(xfers) <= PacketCount(L)
            /\ \A i \in 0..(Len(xfers) - 1) :
                  /\ xfers[i + 1].cmd[1] = (IF op.name = "read" THEN 5 ELSE 6)
                  /\ CmdAddress(xfers[i + 1].cmd) = A + SZ_PACKET * i
                  /\ CmdCount(xfers[i + 1].cmd) = Min(SZ_PACKET, L - SZ_PACKET * i)
            /\ (pc = "done" /\ rc = "SUCCESS") =>
                  /\ Len(xfers) = PacketCount(L)
                  /\ \A i \in 1..Len(xfers) : xfers[i].answer # << >>
                  /\ op.name = "read" =>
                        /\ DOMAIN bufs.user = 0..(L - 1)
                        /\ [k \in 1..L |-> bufs.user[k - 1]] = Payloads(xfers, Len(xfers))
                        /\ \A k \in 0..(L - 1) : bufs.user[k] = DevByte(A + k)

\* A read of 241 bytes has succeeded: three transfers, the last of one byte.
C3_Witness ==
    /\ op.name = "read"
    /\ op.args[2] = 2 * SZ_PACKET + 1
    /\ pc = "done"
    /\ rc = "SUCCESS"
    /\ Len(xfers) = 3
    /\ CmdCount(xfers[3].cmd) = 1


---------------------------------------------------------------------------
(* Properties of suunto_common2_device_foreach                             *)

\* The number of records of the device, and the j-th most recent of them.
K == NDives(env.image)
Recent(j) == K - j + 1

\* The ring is well formed: the header counts its records and every record's
\* next pointer is where the record ends.
WellFormed ==
    /\ ImageCount(env.image) = K
    /\ env.image.badPrev = 0
    /\ \A i \in 1..K : DiveNextPtr(env.image, i) = DiveStart(env.image, i + 1)

\* Record i is long enough to hold its fingerprint bytes.
HasWindow(i) == env.image.sizes[i] >= FP_OFFSET + FP_SIZE

\* The bytes the device holds after the four pointer bytes of record i.
RecordPayload(i) ==
    [k \in 1..(env.image.sizes[i] - 4) |->
        DevByte(RingAt(DiveStart(env.image, i) + 4 + k - 1))]

ForeachDone == pc = "done" /\ op.name = "foreach"
AllAnswered == \A i \in 1..Len(xfers) : xfers[i].answer # << >>
NoStop == \A j \in 1..Len(cbs) : cbs[j].ret = "continue"

\* The j-th callback is handed the j-th most recent record.
MostRecentFirst ==
    \A j \in 1..Len(cbs) :
        /\ j <= K
        /\ cbs[j].begin = DiveStart(env.image, Recent(j))
        /\ cbs[j].end = DiveStart(env.image, Recent(j) + 1)

RECURSIVE SumSizes(_)
SumSizes(n) == IF n = 0 THEN 0 ELSE cbs[n].size + 4 + SumSizes(n - 1)

RECURSIVE RecentBytes(_)
RecentBytes(j) == IF j = 0 THEN 0 ELSE env.image.sizes[Recent(j)] + RecentBytes(j - 1)

\* The profile bytes buffered so far, and those of the last package.
ProfileBytes == progress.current - (SZ_VERSION + SerialSize + HeaderSize)
LastPackageBytes ==
    IF Len(events) > 5
    THEN events[Len(events)].current - events[Len(events) - 1].current
    ELSE 0

\* The traversal with an all-zero fingerprint has visited every record.
VisitedAll ==
    /\ rc = "SUCCESS"
    /\ fe.ndives = K
    /\ fe.remaining = 0
    /\ op.args[1] =>
          /\ Len(cbs) = K
          /\ MostRecentFirst
          /\ SumSizes(Len(cbs)) = RB_PROFILE_DISTANCE(fe.begin, fe.end)

\* C4: with the all-zero fingerprint, foreach over a well-formed ring of K
\* records calls the callback K times, most recent first, returns success, and
\* the sizes add up to distance (begin, end); it also succeeds without a
\* callback.
C4_VisitsAll ==
    (ForeachDone /\ WellFormed /\ fingerprint = Zeros(FP_SIZE) /\ AllAnswered /\ NoStop)
        => VisitedAll

\* The same, for rings where every record holds a fingerprint that is not all zero.
ForeachComplete ==
    ( /\ ForeachDone /\ WellFormed /\ fingerprint = Zeros(FP_SIZE) /\ AllAnswered /\ NoStop
      /\ \A i \in 1..K : HasWindow(i) /\ DevWindow(i) # Zeros(FP_SIZE) )
        => VisitedAll

\* C5: when the fingerprint is that of the J-th most recent record and of no
\* more recent record, foreach calls the callback for the J - 1 more recent
\* records, most recent first, and for no other, reads nothing once record J
\* is buffered, and returns success.
C5_StopsAtFingerprint ==
    \A J \in 1..K :
        ( /\ ForeachDone /\ WellFormed /\ AllAnswered /\ NoStop
          /\ \A j \in 1..J : HasWindow(Recent(j))
          /\ fingerprint = DevWindow(Recent(J))
          /\ \A j \in 1..(J - 1) : DevWindow(Recent(j)) # fingerprint )
        =>  /\ rc = "SUCCESS"
            /\ fe.ndives = J
            /\ op.args[1] => Len(cbs) = J - 1 /\ MostRecentFirst
            /\ ~op.args[1] => cbs = << >>
            /\ ProfileBytes >= RecentBytes(J)
            /\ ProfileBytes - LastPackageBytes < RecentBytes(J)
            /\ Len(xfers) = 3 + (Len(events) - 5)

\* The fingerprint of the second most recent of three records: one callback.
C5_Witness ==
    /\ ForeachDone /\ WellFormed /\ AllAnswered
    /\ K = 3
    /\ HasWindow(Recent(1)) /\ HasWindow(Recent(2))
    /\ fingerprint = DevWindow(Recent(2))
    /\ fingerprint # DevWindow(Recent(1))
    /\ Len(cbs) = 1
    /\ cbs[1].ret = "continue"
    /\ rc = "SUCCESS"


\* The packages of the traversal: package k is the transfer 3 + k of the call
\* (after the version, the serial number and the header), and its progress
\* event is the event 5 + k.  A package fetches the profile bytes
\* [PackageBegin (k), PackageEnd (k)), and extra bytes below them.
PackagesIssued == IF op.name = "foreach" /\ Len(xfers) > 3 THEN Len(xfers) - 3 ELSE 0
PackagesDone == IF op.name = "foreach" /\ Len(events) > 5 THEN Len(events) - 5 ELSE 0
PackageEnd(k) == CmdAddress(xfers[3 + k].cmd) + CmdCount(xfers[3 + k].cmd)
PackageBytes(k) == events[5 + k].current - events[4 + k].current
PackageBegin(k) == PackageEnd(k) - PackageBytes(k)

\* What every callback is handed: the length and the bytes of its record.
PayloadsRight ==
    \A j \in 1..Len(cbs) :
        /\ j <= K
        /\ cbs[j].begin = DiveStart(env.image, Recent(j))
        /\ cbs[j].end = DiveStart(env.image, Recent(j) + 1)
        /\ cbs[j].size = RB_PROFILE_DISTANCE(cbs[j].begin, cbs[j].end) - 4
        /\ cbs[j].size = env.image.sizes[Recent(j)] - 4
        /\ Len(cbs[j].data) = cbs[j].size
        /\ cbs[j].data = RecordPayload(Recent(j))

\* The package after one that reaches RB_PROFILE_BEGIN ends at RB_PROFILE_END.
ResumesAtEnd ==
    \A k \in 1..PackagesDone :
        (PackageBegin(k) = RB_PROFILE_BEGIN /\ k + 1 <= PackagesIssued)
            => PackageEnd(k + 1) = RB_PROFILE_END

\* The same, but for a package that reaches RB_PROFILE_BEGIN and completes a
\* record: the next record is then begun at current - available, which is
\* RB_PROFILE_BEGIN, with a read of SZ_MINIMUM bytes that ends there and
\* fetches no profile byte; the package after that one ends at RB_PROFILE_END.
ResumesAtEndOrEmpty ==
    \A k \in 1..PackagesDone :
        (PackageBegin(k) = RB_PROFILE_BEGIN /\ k + 1 <= PackagesIssued)
            => \/ PackageEnd(k + 1) = RB_PROFILE_END
               \/ /\ PackageBytes(k) > 0
                  /\ PackageEnd(k + 1) = RB_PROFILE_BEGIN
                  /\ CmdCount(xfers[3 + k + 1].cmd) = SZ_MINIMUM
                  /\ k + 1 <= PackagesDone => PackageBytes(k + 1) = 0

\* C6: on a well-formed ring every callback is handed size - 4 bytes,
\* size = distance (previous, current), equal to the device's bytes after the
\* record's four pointer bytes up to current, also across the wrap and with
\* bytes fetched early; the package after one that reaches BEGIN ends at END.
C6_Payload == WellFormed => (PayloadsRight /\ ResumesAtEnd)

\* What holds of the payloads and of the packages on every well-formed ring.
PayloadsAndResume == WellFormed => (PayloadsRight /\ ResumesAtEndOrEmpty)

\* A callback for a record that lies across the wrap, with bytes of the next
\* record already fetched, after a package has resumed at RB_PROFILE_END.
AcrossTheWrap ==
    /\ pc = "callback"
    /\ WellFormed
    /\ cbs[Len(cbs)].begin > cbs[Len(cbs)].end
    /\ fe.available > 0
    /\ \E k \in 1..PackagesDone :
          /\ PackageBegin(k) = RB_PROFILE_BEGIN
          /\ k + 1 <= PackagesDone
          /\ PackageEnd(k + 1) = RB_PROFILE_END

\* The next pointer of the dive that has just been buffered is not current.
NextPointerMismatch ==
    array_uint16_le(bufs.data, SZ_MINIMUM + fe.remaining - fe.size + 2) # fe.current

\* C7: when the next pointer of the dive just buffered differs from current,
\* foreach returns PROTOCOL, without going on and without calling the callback
\* for that dive.
C7_MismatchIsProtocol ==
    [][(pc = "fe_dive" /\ NextPointerMismatch)
          => (pc' = "done" /\ rc' = "PROTOCOL" /\ cbs' = cbs)]_vars

\* C8: when the loop ends because current = begin, foreach returns, and it
\* returns success only if remaining = 0, available = 0 and ndives = count,
\* and an error otherwise.
C8_ExitChecks ==
    [][(pc = "fe_outer" /\ fe.current = fe.begin)
          => /\ pc' = "done"
             /\ rc' = "SUCCESS" <=>
                   (fe.remaining = 0 /\ fe.available = 0 /\ fe.ndives = fe.count)]_vars

\* The last callback has returned the stop signal.
Stopped == cbs # << >> /\ cbs[Len(cbs)].ret = "stop"

\* C9: when the callback returns the stop signal foreach returns success, and
\* from the call of that callback on there is no transfer, no callback and no
\* event; the callback is called only once its dive is buffered entirely, no
\* transfer being under way.
C9_Stop ==
    /\ [](pc = "callback" =>
            /\ ~ULt(fe.nbytes, fe.size)
            /\ cbs # << >>
            /\ cbs[Len(cbs)].ret = "pending"
            /\ \A i \in 0..(cbs[Len(cbs)].size - 1) :
                  (SZ_MINIMUM + fe.remaining + 4 + i) \in DOMAIN bufs.data
            /\ AllAnswered)
    /\ [](Stopped => pc \in {"done", "idle"} /\ rc = "SUCCESS")
    /\ [][(pc = "callback" /\ Stopped')
             => /\ pc' = "done" /\ rc' = "SUCCESS"
                /\ xfers' = xfers /\ events' = events /\ Len(cbs') = Len(cbs)
                /\ written' = written]_vars
    /\ [][Stopped => (pc = "done" /\ pc' = "idle")]_vars

\* The second callback has returned the stop signal, an older record remaining.
C9_Witness ==
    /\ ForeachDone
    /\ Stopped
    /\ Len(cbs) = 2
    /\ K = 3
    /\ rc = "SUCCESS"

---------------------------------------------------------------------------
(* The fingerprint of the handle                                           *)

\* C10: only set_fingerprint changes the fingerprint of the handle: during
\* and after any other call, whatever it returns, the fingerprint is what it
\* was when the call was made.
C10_FingerprintFrame ==
    op.name \notin {"set_fingerprint", "none"} => fingerprint = fp0

\* foreach has returned on a fingerprint match, the fingerprint as it was set.
C10_Witness ==
    /\ ForeachDone
    /\ rc = "SUCCESS"
    /\ fingerprint # Zeros(FP_SIZE)
    /\ fingerprint = fp0
    /\ fingerprint = DevWindow(Recent(2))
    /\ fe.ndives = 2
    /\ Len(cbs) = 1


---------------------------------------------------------------------------
(* Properties of the buffer sizes, of failed packages and of the dump      *)

\* The call is a version () or a dump () whose buffer is too small.
BufferTooSmall ==
    \/ op.name = "version" /\ op.args[1] < SZ_VERSION
    \/ op.name = "dump" /\ op.args[1] < SZ_MEMORY

\* C11: version () with a buffer of fewer than SZ_VERSION bytes and dump ()
\* with a buffer of fewer than SZ_MEMORY bytes return MEMORY without any
\* call of the backend and without any event, the buffer left as it was.
C11_SizeCheckFirst ==
    BufferTooSmall =>
        /\ pc = "done"
        /\ rc = "MEMORY"
        /\ xfers = << >>
        /\ trail = << >>
        /\ events = << >>
        /\ bufs.user = << >>
        /\ result = 0

\* dump () has returned for a buffer one byte short.
C11_Witness ==
    /\ pc = "done"
    /\ op.name = "dump"
    /\ op.args[1] = SZ_MEMORY - 1
    /\ rc = "MEMORY"
    /\ events = << >>


\* A read or a write has returned an error.
PackageFailed == pc = "done" /\ op.name \in {"read", "write"} /\ rc # "SUCCESS"

\* The byte the device held at address a when the operation was called.
MemBefore(a) == IF a \in DOMAIN op.mem THEN op.mem[a] ELSE ImageByte(env.image, a)

\* The package that failed (from 0), and the device addresses of package i.
FailedPackage == Len(xfers) - 1
PackageRange(i) ==
    LET first == op.args[1] + SZ_PACKET * i
    IN  first..(first + Min(SZ_PACKET, op.args[2] - SZ_PACKET * i) - 1)

\* The device holds the bytes of WriteData at the addresses of package i.
PackageWritten(i) ==
    \A a \in PackageRange(i) : DevByte(a) = WriteData(op.args[2])[a - op.args[1] + 1]
PackageUntouched(i) == \A a \in PackageRange(i) : DevByte(a) = MemBefore(a)

\* The error of the failed package is returned and no other package follows.
FailureEndsTheCall ==
    /\ [](PackageFailed =>
            /\ Len(xfers) \in 1..PacketCount(op.args[2])
            /\ xfers[Len(xfers)].answer = << >>
            /\ \A i \in 1..(Len(xfers) - 1) : xfers[i].answer # << >>)
    /\ [][(pc \in {"read_ret", "write_ret"} /\ op.name \in {"read", "write"}
              /\ rc # "SUCCESS")
             => (pc' = "done" /\ rc' = rc /\ xfers' = xfers /\ written' = written)]_vars
    /\ [][PackageFailed => pc' = "idle"]_vars

\* After a write that failed at package k: packages 0..k-1 are in the device
\* and every address outside packages 0..k holds what it held before.
WrittenUpTo(k) ==
    /\ \A i \in 0..(k - 1) : PackageWritten(i)
    /\ \A a \in 0..(SZ_MEMORY - 1) :
          (\A i \in 0..k : a \notin PackageRange(i)) => DevByte(a) = MemBefore(a)

\* C12 as stated: when package k of a read or a write fails, that error is
\* returned and no later package is transferred; after a write the device
\* holds the new bytes of packages 0..k-1 and nothing else has changed.
C12_AsStated ==
    /\ FailureEndsTheCall
    /\ []((PackageFailed /\ op.name = "write") =>
            (WrittenUpTo(FailedPackage) /\ PackageUntouched(FailedPackage)))

\* C12: the same, except that the bytes of the failed package k are either
\* all written or all as before: a backend call that fails may have reached
\* the device.
C12_NoRollback ==
    /\ FailureEndsTheCall
    /\ []((PackageFailed /\ op.name = "write") =>
            /\ WrittenUpTo(FailedPackage)
            /\ PackageWritten(FailedPackage) \/ PackageUntouched(FailedPackage))

\* A write of 250 bytes has failed at its second package; the first package
\* is in the device, the third is not.
C12_Witness ==
    /\ PackageFailed
    /\ op.name = "write"
    /\ op.args[2] = 2 * SZ_PACKET + 10
    /\ FailedPackage = 1
    /\ PackageWritten(0)
    /\ ~PackageWritten(2)
    /\ PackageUntouched(2)


---------------------------------------------------------------------------
(* Properties of the ring                                                  *)

\* The header the device holds says begin = end.
HeaderEmpty == ImageEnd(env.image) = env.image.begin

\* foreach has decoded the header.
HeaderDecoded ==
    op.name = "foreach" /\ pc \in {"fe_outer", "fe_dive", "fe_chunk", "callback", "done"}
        /\ Len(xfers) >= 3 /\ xfers[3].answer # << >>

\* C13: for offsets a and b of the ring the distance is (b - a) modulo the
\* size of the ring, a number from 0 to the size less one, and 0 when a = b;
\* so with a header that says begin = end, remaining is 0 and foreach visits
\* no dive.
C13_Distance ==
    /\ (pc = "done" /\ op.name = "distance") =>
          LET a == op.args[1]
              b == op.args[2]
          IN  /\ result = (b - a) % (RB_PROFILE_END - RB_PROFILE_BEGIN)
              /\ result \in 0..(RB_PROFILE_END - RB_PROFILE_BEGIN - 1)
              /\ a = b => result = 0
    /\ (HeaderDecoded /\ HeaderEmpty) =>
          /\ fe.begin = fe.end
          /\ fe.remaining = 0
          /\ fe.ndives = 0
          /\ cbs = << >>
          /\ Len(xfers) = 3
          /\ pc \in {"fe_outer", "done"}
          /\ pc = "done" => rc = "SUCCESS"

\* The distance from the last offset of the ring to the first is 1.
C13_Witness ==
    /\ pc = "done"
    /\ op.name = "distance"
    /\ op.args = << RB_PROFILE_END - 1, RB_PROFILE_BEGIN >>
    /\ result = 1


---------------------------------------------------------------------------
(* Properties of suunto_common2_device_dump                                *)

\* C14: dump () into a buffer of SZ_MEMORY bytes or more, every read command
\* being answered in the end with the bytes the device holds at the address
\* asked for, returns success, reports SZ_MEMORY bytes and leaves in the
\* buffer the memory of the device, byte for byte, also when packages needed
\* retries.
C14_DumpIsImage ==
    (pc = "done" /\ op.name = "dump" /\ op.args[1] >= SZ_MEMORY /\ AllAnswered) =>
        /\ rc = "SUCCESS"
        /\ result = SZ_MEMORY
        /\ Len(xfers) = PacketCount(SZ_MEMORY)
        /\ DOMAIN bufs.user = 0..(SZ_MEMORY - 1)
        /\ \A a \in 0..(SZ_MEMORY - 1) : bufs.user[a] = DevByte(a)
        /\ written = op.mem

\* A dump has succeeded whose last package needed two retries, from a device
\* that holds bytes written before.
C14_Witness ==
    /\ pc = "done"
    /\ op.name = "dump"
    /\ rc = "SUCCESS"
    /\ result = SZ_MEMORY
    /\ xf.nretries = MAXRETRIES
    /\ written # << >>


---------------------------------------------------------------------------
(* Properties of the packages foreach reads                                *)

\* The address and the count of the read command of package k.
PackageAddress(k) == CmdAddress(xfers[3 + k].cmd)
PackageCount(k) == CmdCount(xfers[3 + k].cmd)

\* The profile bytes foreach has counted never exceed those the header announces.
WithinRemaining ==
    PackagesDone > 0 =>
        /\ \A k \in 1..PackagesDone : PackageBytes(k) >= 0
        /\ ProfileBytes <= RB_PROFILE_DISTANCE(fe.begin, fe.end)

\* C15 as stated: every read of the traversal asks for addresses inside
\* [BEGIN, END), none starts below BEGIN, and the profile bytes counted never
\* exceed those that remain.
C15_InsideRing ==
    WellFormed =>
        /\ \A k \in 1..PackagesIssued :
              /\ PackageAddress(k) >= RB_PROFILE_BEGIN
              /\ PackageEnd(k) <= RB_PROFILE_END
        /\ WithinRemaining

\* What holds of the reads of the traversal: each ends inside [BEGIN, END],
\* the profile bytes it counts, the last len bytes it asks for, lie inside
\* [BEGIN, END) and never exceed those that remain; a read starts below BEGIN,
\* by at most SZ_MINIMUM bytes, only when it is widened to SZ_MINIMUM bytes.
ProfileInsideRing ==
    /\ \A k \in 1..PackagesIssued :
          /\ PackageEnd(k) >= RB_PROFILE_BEGIN
          /\ PackageEnd(k) <= RB_PROFILE_END
          /\ PackageAddress(k) >= RB_PROFILE_BEGIN - SZ_MINIMUM
          /\ PackageAddress(k) < RB_PROFILE_BEGIN => PackageCount(k) = SZ_MINIMUM
    /\ \A k \in 1..PackagesDone :
          /\ PackageBegin(k) >= RB_PROFILE_BEGIN
          /\ PackageBytes(k) <= PackageCount(k)
          /\ PackageBytes(k) < PackageCount(k) => PackageCount(k) = SZ_MINIMUM
    /\ WithinRemaining

\* A read of the traversal that starts below BEGIN and counts four profile bytes.
WidenedBelowBegin ==
    /\ WellFormed
    /\ \E k \in 1..PackagesDone :
          /\ PackageAddress(k) < RB_PROFILE_BEGIN
          /\ PackageBytes(k) = 4
          /\ PackageBegin(k) = RB_PROFILE_BEGIN


\* The transfer a read of foreach has in flight carries the whole read.
WholeRead ==
    pc \in {"transfer", "read_ret"} /\ Len(xfers) >= 2 =>
        /\ rw.nbytes = 0
        /\ rw.len = rw.size
        /\ CmdAddress(xfers[Len(xfers)].cmd) = rw.address
        /\ CmdCount(xfers[Len(xfers)].cmd) = rw.size

\* C16: every read command foreach issues for the serial number, the header
\* and the packages asks for at least SZ_MINIMUM and at most SZ_PACKET bytes,
\* so that each read is one transfer; a package of fewer than SZ_MINIMUM
\* profile bytes is widened by exactly SZ_MINIMUM - len leading bytes.
C16_ReadSizes ==
    op.name = "foreach" =>
        /\ \A i \in 2..Len(xfers) :
              /\ Head(xfers[i].cmd) = 5
              /\ CmdCount(xfers[i].cmd) >= SZ_MINIMUM
              /\ CmdCount(xfers[i].cmd) <= SZ_PACKET
        /\ WholeRead
        /\ Len(events) >= 5 => Len(xfers) - 3 \in {Len(events) - 5, Len(events) - 4}
        /\ \A k \in 1..PackagesDone :
              /\ PackageBytes(k) >= 0
              /\ PackageCount(k) = Max(PackageBytes(k), SZ_MINIMUM)
              /\ PackageBegin(k) = PackageAddress(k) + (PackageCount(k) - PackageBytes(k))

\* A package of four profile bytes has been read with a command for eight.
C16_Witness ==
    /\ op.name = "foreach"
    /\ \E k \in 1..PackagesDone :
          /\ PackageBytes(k) = 4
          /\ PackageCount(k) = SZ_MINIMUM
          /\ PackageBegin(k) = PackageAddress(k) + 4
    /\ \E k \in 1..PackagesDone : PackageCount(k) = SZ_PACKET


---------------------------------------------------------------------------
(* Properties of the progress events                                       *)

\* The progress events of the call, in the order of their emission.
ProgressEvents == SelectSeq(events, LAMBDA e : e.type = "progress")

\* dump has read the whole memory, or foreach has left its loop at current == begin.
WholeCompletion ==
    /\ pc = "done"
    /\ rc = "SUCCESS"
    /\ \/ op.name = "dump"
       \/ op.name = "foreach" /\ fe.current = fe.begin

\* C17: within one call of dump or foreach the first progress event has
\* current = 0, current never decreases from one event to the next, no event
\* has current above its maximum, and when the call completes as a whole the
\* last event has current = maximum.
C17_Progress ==
    op.name \in {"dump", "foreach"} =>
        LET P == ProgressEvents
        IN  /\ P # << >> => P[1].current = 0
            /\ \A i \in 1..(Len(P) - 1) : P[i].current <= P[i + 1].current
            /\ \A i \in 1..Len(P) : P[i].current <= P[i].maximum
            /\ WholeCompletion =>
                  /\ P # << >>
                  /\ P[Len(P)].current = P[Len(P)].maximum

\* A traversal of three dives has completed as a whole.
C17_Witness ==
    /\ WholeCompletion
    /\ op.name = "foreach"
    /\ fe.ndives = 3
    /\ Len(ProgressEvents) > 5
    /\ ProgressEvents[Len(ProgressEvents)].current = ProgressEvents[Len(ProgressEvents)].maximum


---------------------------------------------------------------------------
(* Properties of suunto_common2_device_set_fingerprint                     *)

\* C20: set_fingerprint with an input whose length is neither zero nor
\* FP_SIZE returns an error and leaves the fingerprint as it was; an input of
\* FP_SIZE bytes is stored; an empty input resets the fingerprint to zeros,
\* the fingerprint of a fresh handle, whatever was called before.  No
\* command is sent.
C20_SetFingerprint ==
    pc = "done" /\ op.name = "set_fingerprint" =>
        LET data == op.args[1]
            size == op.args[2]
        IN  /\ size # 0 /\ size # FP_SIZE => rc = "ERROR" /\ fingerprint = fp0
            /\ size = FP_SIZE => rc = "SUCCESS" /\ fingerprint = data
            /\ size = 0 => rc = "SUCCESS" /\ fingerprint = Zeros(FP_SIZE)
            /\ xfers = << >>
            /\ written = op.mem

\* An empty input has reset a fingerprint that had been set.
C20_Witness ==
    /\ pc = "done"
    /\ op.name = "set_fingerprint"
    /\ op.args[2] = 0
    /\ fp0 = OtherFingerprint
    /\ fingerprint = Zeros(FP_SIZE)
    /\ written # << >>


---------------------------------------------------------------------------
(* Properties of the array data of foreach                                 *)

\* Every size foreach has computed so far satisfied 4 <= size <= remaining:
\* the build checks the assertion, or the records are chained as they should.
SizesValid == ~env.ndebug \/ WellFormed

\* C18: as long as every dive size satisfies 4 <= size <= remaining, foreach
\* accesses the array data only inside [0, SZ_MINIMUM + (END - BEGIN)): where
\* a package is read to, the four pointer bytes, the fingerprint window and
\* what the callback is handed.
C18_InBounds ==
    op.name = "foreach" /\ SizesValid => pc # "undefined"

---------------------------------------------------------------------------
(* Termination of foreach                                                  *)

\* C19: foreach terminates whatever the header and the pointers hold: a
\* package of zero profile bytes is followed by one that is not empty, and
\* each dive takes at least four bytes off remaining, so that the dives
\* traversed are at most the initial remaining / 4.
C19_Terminates ==
    op.name = "foreach" /\ Len(events) >= 5 =>
        /\ \A k \in 1..(PackagesDone - 1) :
              PackageBytes(k) = 0 => PackageBytes(k + 1) > 0
        /\ fe.remaining >= 0
        /\ 4 * fe.ndives + fe.remaining <= RB_PROFILE_DISTANCE(fe.begin, fe.end)

============================================================================
